---- MODULE Spec2Model ----
(***************************************************************************)
(* Model of publish.py: the publish script of the extension.  One run is   *)
(* a straight line of steps: argument validation, version bump of          *)
(* src/package.json, collection of the source and asset file lists, and    *)
(* packaging into a zip archive or a directory.                            *)
(*                                                                         *)
(* Strings that the script cuts or joins (paths, file names) are sequences *)
(* of chunks, a chunk being a piece of text without separator or the       *)
(* separator itself: "src/A/foo.lua" is <<"src","/","A","/","foo",".lua">>.*)
(* A version string is the sequence of its dot-separated components, each  *)
(* a sequence of decimal digits, so that "1.09.3" and "1.9.3" differ.      *)
(***************************************************************************)
EXTENDS Integers, Sequences, FiniteSets, TLC

VARIABLES
    argv,               \* sys.argv; argv[k + 1] is sys.argv[k]
    manifest,           \* the file src/package.json
    srcTree,            \* the tree under src, as os.walk yields it
    assetTree,          \* the tree under assets, as os.walk yields it
    disk,               \* the file system outside src and assets: path -> node
    pc,                 \* position of the script
    exitCode,           \* exit status of the process, read once it has ended
    stdout,             \* the messages printed, per-file lines left out
    incr_method,
    publish_method,
    extension_name,
    source_files,
    asset_files,
    destination_path,
    idx,                \* position of the running for loop in its list
    runs,               \* number of invocations so far
    manifest0,          \* src/package.json when the current run started
    disk0               \* the file system when the current run started

vars == <<argv, manifest, srcTree, assetTree, disk, pc, exitCode, stdout,
          incr_method, publish_method, extension_name, source_files,
          asset_files, destination_path, idx, runs, manifest0, disk0>>

----------------------------------------------------------------------------
(* Bounds *)

MaxRuns == 2
MaxArity == 4

----------------------------------------------------------------------------
(* Strings and paths *)

Sep == "/"

Last(s) == s[Len(s)]

\* str.split(os.path.sep) on a chunked string
RECURSIVE Split(_)
Split(s) ==
    IF s = <<>> THEN <<"">>
    ELSE LET init == Split(SubSeq(s, 1, Len(s) - 1))
             c == Last(s)
         IN  IF c = Sep THEN Append(init, "")
             ELSE [init EXCEPT ![Len(init)] = @ \o c]

\* the file-system object a path string names: its non-empty components
Components(s) == SelectSeq(Split(s), LAMBDA c : c /= "")

\* os.path.join(a, b) for a relative b
Join(a, b) == IF a = <<>> \/ Last(a) = Sep THEN a \o b ELSE a \o <<Sep>> \o b

\* os.path.basename(s): what follows the last separator
RECURSIVE BaseName(_)
BaseName(s) ==
    IF s = <<>> \/ Last(s) = Sep THEN <<>>
    ELSE Append(BaseName(SubSeq(s, 1, Len(s) - 1)), Last(s))

\* str.lower() on the argument strings of the model
Lower(s) ==
    CASE s = "MINOR" -> "minor"
      [] OTHER -> s

\* file.endswith('.lua') on a chunked file name
EndsWithLua(file) == file /= <<>> /\ Last(file) = ".lua"

----------------------------------------------------------------------------
(* Program constants *)

method_to_index_map ==
    [none |-> -1, major |-> 0, minor |-> 1, patch |-> 2, increment |-> 3]

publish_modes == <<"zip", "no_zip">>

package_json_location == <<"src", Sep, "package", ".json">>

ArchiveSuffix == <<".aseprite-extension">>

InList(x, list) == \E k \in 1..Len(list) : list[k] = x

----------------------------------------------------------------------------
(* Versions: packaging.version *)

\* int() of a digit string
RECURSIVE ParseInt(_)
ParseInt(ds) ==
    IF ds = <<>> THEN 0
    ELSE 10 * ParseInt(SubSeq(ds, 1, Len(ds) - 1)) + Last(ds)

\* str() of a non-negative int
RECURSIVE FormatInt(_)
FormatInt(n) ==
    IF n < 10 THEN <<n>> ELSE Append(FormatInt(n \div 10), n % 10)

\* list(version.parse(s).release)
ParseRelease(s) == [k \in 1..Len(s) |-> ParseInt(s[k])]

\* str(version.Version('.'.join([str(n) for n in package_version])))
FormatVersion(v) == [k \in 1..Len(v) |-> FormatInt(v[k])]

\* package_version[i] += 1 without the loop that zeroes what follows
IncrementAtNoReset(v, i) ==
    LET p == IF i < 0 THEN Len(v) + i + 1 ELSE i + 1
    IN  [v EXCEPT ![p] = @ + 1]

\* package_version[i] += 1, then the for loop that zeroes what follows;
\* i is a valid Python index of v here, negative ones counted from the end
IncrementAt(v, i) ==
    LET p == IF i < 0 THEN Len(v) + i + 1 ELSE i + 1
        v1 == [v EXCEPT ![p] = @ + 1]
    IN  [k \in 1..Len(v) |-> IF k - 1 \in (i + 1)..(Len(v) - 1) THEN 0 ELSE v1[k]]

\* the version bump without the test for "none": index -1 is the last component
BumpReleaseUnguarded(v, method) == IncrementAt(v, method_to_index_map[method])

\* the if statement of the version bump
BumpRelease(v, method) ==
    IF method /= "none" THEN IncrementAt(v, method_to_index_map[method]) ELSE v

\* package_version[i] raises IndexError
IndexError(v, method) ==
    method /= "none" /\ method_to_index_map[method] >= Len(v)

\* json.load: the fields of the file, its layout forgotten
JsonLoad(file) ==
    [name |-> file.name, version |-> file.version, description |-> file.description]

\* json.dump(package, f, indent=4)
JsonDump(package) ==
    [name |-> package.name, version |-> package.version,
     description |-> package.description, layout |-> "indent4"]

----------------------------------------------------------------------------
(* The file system outside the two source trees *)

NoPackage == [name |-> <<>>, version |-> <<>>, description |-> "", layout |-> ""]

\* content of a file: where it was copied from, and the manifest text if it is one
FileData(origin, text) == [origin |-> origin, text |-> text]

DirNode == [kind |-> "dir", data |-> FileData(<<>>, NoPackage), entries |-> <<>>]
FileNode(data) == [kind |-> "file", data |-> data, entries |-> <<>>]
ZipNode(entries) == [kind |-> "zip", data |-> FileData(<<>>, NoPackage), entries |-> entries]

Exists(d, s) == Components(s) \in DOMAIN d
IsDir(d, s) == Exists(d, s) /\ d[Components(s)].kind = "dir"
IsFile(d, s) == Exists(d, s) /\ d[Components(s)].kind /= "dir"

Prefixes(p) == {SubSeq(p, 1, k) : k \in 1..(Len(p) - 1)}
IsUnder(q, p) == Len(q) > Len(p) /\ SubSeq(q, 1, Len(p)) = p

Restrict(d, keep) == [p \in keep |-> d[p]]

\* os.remove(s)
Remove(d, s) == Restrict(d, DOMAIN d \ {Components(s)})

\* os.makedirs(s, exist_ok=True)
MakeDirs(d, s) ==
    LET p == Components(s)
        new == (Prefixes(p) \cup {p}) \ DOMAIN d
    IN  [q \in new |-> DirNode] @@ d

\* shutil.rmtree(s, ignore_errors=True): a directory goes with all beneath it,
\* anything else raises an error that is ignored
RmTreeOf(d, s) ==
    LET p == Components(s)
    IN  IF IsDir(d, s)
        THEN Restrict(d, {q \in DOMAIN d : q /= p /\ ~IsUnder(q, p)})
        ELSE d

\* Path(s).parent.mkdir(parents=True, exist_ok=True) raises FileExistsError
MkdirParentFails(d, s) ==
    \E q \in Prefixes(Components(s)) : q \in DOMAIN d /\ d[q].kind /= "dir"

\* Path(s).parent.mkdir(parents=True, exist_ok=True); copyfile(file, s)
CopyTo(d, s, data) ==
    LET p == Components(s)
        new == Prefixes(p) \ DOMAIN d
    IN  (p :> FileNode(data)) @@ [q \in new |-> DirNode] @@ d

\* the manifest as it was before the bump, packaged in place of the file
ReadFileBeforeBump(file) ==
    IF file = package_json_location
    THEN FileData(file, manifest0)
    ELSE FileData(file, NoPackage)

\* content of a file of the source or asset tree as it is read now
ReadFile(file) ==
    IF file = package_json_location
    THEN FileData(file, manifest)
    ELSE FileData(file, NoPackage)

----------------------------------------------------------------------------
(* Directory walks *)

WalkEntry(root, files) == [root |-> root, files |-> files]

\* the body of the os.walk("src") loop for one directory
SourcesOfDir(e, category) ==
    LET folders == Tail(Split(e.root))
        RECURSIVE Files(_)
        Files(k) ==
            IF k = 0 THEN <<>>
            ELSE IF ~EndsWithLua(e.files[k]) THEN Files(k - 1)
            ELSE Append(Files(k - 1), Join(e.root, e.files[k]))
    IN  IF Len(folders) > 0 /\ ~InList(category, folders)
        THEN <<>>
        ELSE Files(Len(e.files))

\* source_files after the os.walk("src") loop
RECURSIVE CollectSourceFiles(_, _)
CollectSourceFiles(walk, category) ==
    IF walk = <<>> THEN <<package_json_location>>
    ELSE CollectSourceFiles(SubSeq(walk, 1, Len(walk) - 1), category)
            \o SourcesOfDir(Last(walk), category)

\* asset_files after the os.walk('assets') loop
RECURSIVE CollectAssetFiles(_)
CollectAssetFiles(walk) ==
    IF walk = <<>> THEN <<>>
    ELSE LET e == Last(walk)
         IN  CollectAssetFiles(SubSeq(walk, 1, Len(walk) - 1))
                \o [k \in 1..Len(e.files) |-> Join(e.root, e.files[k])]

----------------------------------------------------------------------------
(* Inputs of a run *)

Categories == {"A", "B"}
Methods == {"major", "minor", "patch", "increment", "none", "bogus", "MINOR"}
Modes == {"zip", "no_zip", "rar"}
Destinations == {<<"out">>, <<"out", Sep>>}

ArgvSet ==
    {<<"publish.py", c, m, p, d>> :
        c \in Categories, m \in Methods, p \in Modes, d \in Destinations}
    \cup {<<"publish.py", m>> : m \in Methods}
    \cup {<<"publish.py", "A", m, "zip", <<"out">>, "extra">> : m \in Methods}

\* "1.2.3" and "1.2.3.4" up to MaxArity components, either as they are or
\* with one component replaced by "09"
VersionWith(n, k) == [j \in 1..n |-> IF j = k THEN <<0, 9>> ELSE <<j>>]
Versions == {VersionWith(n, k) : n \in 3..MaxArity, k \in 0..MaxArity}

Manifests ==
    [name : {<<"ext">>}, version : Versions, description : {"sprite tools"},
     layout : {"compact"}]

SrcRoot == WalkEntry(<<"src">>, <<<<"package", ".json">>, <<"root", ".lua">>>>)
SrcA == WalkEntry(<<"src", Sep, "A">>, <<<<"foo", ".lua">>, <<"notes", ".txt">>>>)
SrcASub == WalkEntry(<<"src", Sep, "A", Sep, "sub">>, <<<<"x", ".lua">>>>)
SrcB == WalkEntry(<<"src", Sep, "B">>, <<<<"bar", ".lua">>>>)
SrcBA == WalkEntry(<<"src", Sep, "B", Sep, "A">>, <<<<"deep", ".lua">>>>)

\* src/{root.lua, A/foo.lua, B/bar.lua}, with or without the nested directories
SrcTrees ==
    {SelectSeq(<<SrcRoot, SrcA, SrcASub, SrcB, SrcBA>>,
               LAMBDA e : e \in {SrcRoot, SrcA, SrcB} \cup nested) :
        nested \in {{}, {SrcASub, SrcBA}}}

\* assets/{logo.png, icons/x.png}, or an empty assets directory
AssetTrees ==
    {<<WalkEntry(<<"assets">>, <<<<"logo", ".png">>>>),
       WalkEntry(<<"assets", Sep, "icons">>, <<<<"x", ".png">>>>)>>,
     <<WalkEntry(<<"assets">>, <<>>)>>}

StaleManifest ==
    [name |-> <<"ext">>, version |-> <<<<0>>, <<0>>, <<1>>>>,
     description |-> "sprite tools", layout |-> "indent4"]
StaleData == FileData(<<"stale">>, NoPackage)
StaleEntries ==
    <<[arcname |-> <<"package", ".json">>,
       data |-> FileData(package_json_location, StaleManifest)],
      [arcname |-> <<"old", ".lua">>, data |-> StaleData]>>

\* nothing published yet
EmptyDisk == [p \in {} |-> DirNode]
\* an archive and a directory of an earlier run, next to a file named outext
PublishedDisk ==
    (<<"outext">> :> FileNode(StaleData))
    @@ (<<"out">> :> DirNode)
    @@ (<<"out", "ext.aseprite-extension">> :> ZipNode(StaleEntries))
    @@ (<<"out", "ext">> :> DirNode)
    @@ (<<"out", "ext", "package.json">>
            :> FileNode(FileData(package_json_location, StaleManifest)))
    @@ (<<"out", "ext", "old.lua">> :> FileNode(StaleData))
    @@ (<<"out", "ext", "assets">> :> DirNode)
    @@ (<<"out", "ext", "assets", "old.png">> :> FileNode(StaleData))
\* a regular file where the directory artifact goes
FileAtTargetDisk ==
    (<<"out">> :> DirNode) @@ (<<"out", "ext">> :> FileNode(StaleData))
\* a directory where the archive goes
DirAtArchiveDisk ==
    (<<"out">> :> DirNode) @@ (<<"out", "ext.aseprite-extension">> :> DirNode)

PriorDisks == {EmptyDisk, PublishedDisk, FileAtTargetDisk, DirAtArchiveDisk}

----------------------------------------------------------------------------
(* The script *)

publish_location == argv[5]

Init ==
    /\ argv \in ArgvSet
    /\ manifest \in Manifests
    /\ srcTree \in SrcTrees
    /\ assetTree \in AssetTrees
    /\ disk \in PriorDisks
    /\ pc = "check_argc"
    /\ exitCode = 0
    /\ stdout = <<>>
    /\ incr_method = ""
    /\ publish_method = ""
    /\ extension_name = <<>>
    /\ source_files = <<>>
    /\ asset_files = <<>>
    /\ destination_path = <<>>
    /\ idx = 0
    /\ runs = 1
    /\ manifest0 = manifest
    /\ disk0 = disk

\* exit(-1) after a diagnostic
Reject(message) ==
    /\ stdout' = Append(stdout, message)
    /\ pc' = "rejected"
    /\ exitCode' = (-1) % 256

\* an exception nothing catches
Crash ==
    /\ pc' = "crashed"
    /\ exitCode' = 1

\* lines 21-23
CheckArgCount ==
    /\ pc = "check_argc"
    /\ IF Len(argv) /= 5
       THEN Reject("argc_error")
       ELSE pc' = "check_method" /\ UNCHANGED <<stdout, exitCode>>
    /\ UNCHANGED <<argv, manifest, srcTree, assetTree, disk, incr_method,
                   publish_method, extension_name, source_files, asset_files,
                   destination_path, idx, runs, manifest0, disk0>>

\* lines 25-27 without the exit: the diagnostic alone
CheckMethodNoExit ==
    /\ pc = "check_method"
    /\ stdout' = IF Lower(argv[3]) \notin DOMAIN method_to_index_map
                 THEN Append(stdout, "method_error")
                 ELSE stdout
    /\ pc' = "check_mode"
    /\ UNCHANGED <<argv, manifest, srcTree, assetTree, disk, exitCode, incr_method,
                   publish_method, extension_name, source_files, asset_files,
                   destination_path, idx, runs, manifest0, disk0>>

\* lines 25-27
CheckMethod ==
    /\ pc = "check_method"
    /\ IF Lower(argv[3]) \notin DOMAIN method_to_index_map
       THEN Reject("method_error")
       ELSE pc' = "check_mode" /\ UNCHANGED <<stdout, exitCode>>
    /\ UNCHANGED <<argv, manifest, srcTree, assetTree, disk, incr_method,
                   publish_method, extension_name, source_files, asset_files,
                   destination_path, idx, runs, manifest0, disk0>>

\* lines 29-38: the diagnostic is printed and the script goes on
CheckMode ==
    /\ pc = "check_mode"
    /\ stdout' = IF ~InList(Lower(argv[4]), publish_modes)
                 THEN Append(stdout, "mode_error")
                 ELSE stdout
    /\ incr_method' = Lower(argv[3])
    /\ publish_method' = Lower(argv[4])
    /\ pc' = "bump"
    /\ UNCHANGED <<argv, manifest, srcTree, assetTree, disk, exitCode,
                   extension_name, source_files, asset_files,
                   destination_path, idx, runs, manifest0, disk0>>

\* lines 40-67
BumpVersion ==
    /\ pc = "bump"
    /\ LET package == JsonLoad(manifest)
           package_version == ParseRelease(package.version)
       IN  /\ extension_name' = package.name
           /\ IF IndexError(package_version, incr_method)
              THEN Crash /\ UNCHANGED <<manifest, stdout>>
              ELSE /\ manifest' = JsonDump(
                        [package EXCEPT !.version =
                            FormatVersion(BumpRelease(package_version, incr_method))])
                   /\ stdout' = Append(stdout, "bump")
                   /\ pc' = "collect_sources"
                   /\ UNCHANGED exitCode
    /\ UNCHANGED <<argv, srcTree, assetTree, disk, incr_method, publish_method,
                   source_files, asset_files, destination_path, idx, runs,
                   manifest0, disk0>>

\* lines 73-88
CollectSources ==
    /\ pc = "collect_sources"
    /\ source_files' = CollectSourceFiles(srcTree, argv[2])
    /\ pc' = "collect_assets"
    /\ UNCHANGED <<argv, manifest, srcTree, assetTree, disk, exitCode, stdout,
                   incr_method, publish_method, extension_name, asset_files,
                   destination_path, idx, runs, manifest0, disk0>>

\* lines 91-95
CollectAssets ==
    /\ pc = "collect_assets"
    /\ asset_files' = CollectAssetFiles(assetTree)
    /\ pc' = "remove_prior"
    /\ UNCHANGED <<argv, manifest, srcTree, assetTree, disk, exitCode, stdout,
                   incr_method, publish_method, extension_name, source_files,
                   destination_path, idx, runs, manifest0, disk0>>

\* lines 97-100
RemovePrior ==
    /\ pc = "remove_prior"
    /\ disk' = IF IsFile(disk, publish_location \o extension_name)
               THEN Remove(disk, publish_location \o extension_name)
               ELSE disk
    /\ pc' = "make_dest"
    /\ UNCHANGED <<argv, manifest, srcTree, assetTree, exitCode, stdout,
                   incr_method, publish_method, extension_name, source_files,
                   asset_files, destination_path, idx, runs, manifest0, disk0>>

\* lines 102-105
MakeDest ==
    /\ pc = "make_dest"
    /\ disk' = IF ~Exists(disk, publish_location)
               THEN MakeDirs(disk, publish_location)
               ELSE disk
    /\ destination_path' = Join(publish_location, extension_name)
    /\ pc' = "package"
    /\ UNCHANGED <<argv, manifest, srcTree, assetTree, exitCode, stdout,
                   incr_method, publish_method, extension_name, source_files,
                   asset_files, idx, runs, manifest0, disk0>>

\* where a for loop over source_files goes after its entry at idx
AfterSource(loop, next) ==
    IF idx < Len(source_files) THEN pc' = loop /\ idx' = idx + 1
    ELSE IF asset_files /= <<>> THEN pc' = next /\ idx' = 1
    ELSE pc' = "finish" /\ idx' = idx

\* where a for loop over asset_files goes after its entry at idx
AfterAsset(loop) ==
    IF idx < Len(asset_files) THEN pc' = loop /\ idx' = idx + 1
    ELSE pc' = "finish" /\ idx' = idx

\* ZipFile.write(file, arcname): one more entry at the end of the archive
ZipWrite(d, s, arcname, data) ==
    [d EXCEPT ![Components(s)].entries = Append(@, [arcname |-> arcname, data |-> data])]

\* lines 107-111 with ZipFile(destination_path, 'a'): an archive that is there
\* is kept and added to
OpenZipAppend ==
    /\ pc = "package"
    /\ publish_method = "zip"
    /\ destination_path' = destination_path \o ArchiveSuffix
    /\ IF IsDir(disk, destination_path \o ArchiveSuffix)
       THEN Crash /\ UNCHANGED <<disk, idx>>
       ELSE /\ disk' = disk @@ (Components(destination_path \o ArchiveSuffix) :> ZipNode(<<>>))
            /\ pc' = "zip_sources"
            /\ idx' = 1
            /\ UNCHANGED exitCode
    /\ UNCHANGED <<argv, manifest, srcTree, assetTree, stdout, incr_method,
                   publish_method, extension_name, source_files, asset_files,
                   runs, manifest0, disk0>>

\* lines 107-111: ZipFile(destination_path, 'w') creates the file or empties it
OpenZip ==
    /\ pc = "package"
    /\ publish_method = "zip"
    /\ destination_path' = destination_path \o ArchiveSuffix
    /\ IF IsDir(disk, destination_path \o ArchiveSuffix)
       THEN Crash /\ UNCHANGED <<disk, idx>>
       ELSE /\ disk' = (Components(destination_path \o ArchiveSuffix) :> ZipNode(<<>>)) @@ disk
            /\ pc' = "zip_sources"
            /\ idx' = 1
            /\ UNCHANGED exitCode
    /\ UNCHANGED <<argv, manifest, srcTree, assetTree, stdout, incr_method,
                   publish_method, extension_name, source_files, asset_files,
                   runs, manifest0, disk0>>

\* lines 115-118
ZipWriteSource ==
    /\ pc = "zip_sources"
    /\ LET file == source_files[idx]
       IN  disk' = ZipWrite(disk, destination_path, BaseName(file), ReadFile(file))
    /\ AfterSource("zip_sources", "zip_assets")
    /\ UNCHANGED <<argv, manifest, srcTree, assetTree, exitCode, stdout,
                   incr_method, publish_method, extension_name, source_files,
                   asset_files, destination_path, runs, manifest0, disk0>>

\* lines 120-125 with the asset stored under its base name
ZipWriteAssetFlat ==
    /\ pc = "zip_assets"
    /\ LET file == asset_files[idx]
       IN  disk' = ZipWrite(disk, destination_path, BaseName(file), ReadFile(file))
    /\ AfterAsset("zip_assets")
    /\ UNCHANGED <<argv, manifest, srcTree, assetTree, exitCode, stdout,
                   incr_method, publish_method, extension_name, source_files,
                   asset_files, destination_path, runs, manifest0, disk0>>

\* lines 120-125
ZipWriteAsset ==
    /\ pc = "zip_assets"
    /\ LET file == asset_files[idx]
       IN  disk' = ZipWrite(disk, destination_path, file, ReadFile(file))
    /\ AfterAsset("zip_assets")
    /\ UNCHANGED <<argv, manifest, srcTree, assetTree, exitCode, stdout,
                   incr_method, publish_method, extension_name, source_files,
                   asset_files, destination_path, runs, manifest0, disk0>>

\* lines 127-129
RmTree ==
    /\ pc = "package"
    /\ publish_method = "no_zip"
    /\ disk' = RmTreeOf(disk, destination_path)
    /\ pc' = "copy_sources"
    /\ idx' = 1
    /\ UNCHANGED <<argv, manifest, srcTree, assetTree, exitCode, stdout,
                   incr_method, publish_method, extension_name, source_files,
                   asset_files, destination_path, runs, manifest0, disk0>>

\* lines 131-138
CopySource ==
    /\ pc = "copy_sources"
    /\ LET file == source_files[idx]
           destination_file == Join(destination_path, BaseName(file))
       IN  IF MkdirParentFails(disk, destination_file)
           THEN Crash /\ UNCHANGED <<disk, idx>>
           ELSE /\ disk' = CopyTo(disk, destination_file, ReadFile(file))
                /\ AfterSource("copy_sources", "copy_assets")
                /\ UNCHANGED exitCode
    /\ UNCHANGED <<argv, manifest, srcTree, assetTree, stdout, incr_method,
                   publish_method, extension_name, source_files, asset_files,
                   destination_path, runs, manifest0, disk0>>

\* lines 140-147
CopyAsset ==
    /\ pc = "copy_assets"
    /\ LET file == asset_files[idx]
           destination_file == Join(destination_path, file)
       IN  IF MkdirParentFails(disk, destination_file)
           THEN Crash /\ UNCHANGED <<disk, idx>>
           ELSE /\ disk' = CopyTo(disk, destination_file, ReadFile(file))
                /\ AfterAsset("copy_assets")
                /\ UNCHANGED exitCode
    /\ UNCHANGED <<argv, manifest, srcTree, assetTree, stdout, incr_method,
                   publish_method, extension_name, source_files, asset_files,
                   destination_path, runs, manifest0, disk0>>

\* lines 107 and 127 with a publish mode that is neither zip nor no_zip
SkipPackaging ==
    /\ pc = "package"
    /\ publish_method /= "zip"
    /\ publish_method /= "no_zip"
    /\ pc' = "finish"
    /\ UNCHANGED <<argv, manifest, srcTree, assetTree, disk, exitCode, stdout,
                   incr_method, publish_method, extension_name, source_files,
                   asset_files, destination_path, idx, runs, manifest0, disk0>>

\* lines 149-150, and the end of the script
Finish ==
    /\ pc = "finish"
    /\ stdout' = Append(stdout, "published")
    /\ pc' = "done"
    /\ exitCode' = 0
    /\ UNCHANGED <<argv, manifest, srcTree, assetTree, disk, incr_method,
                   publish_method, extension_name, source_files, asset_files,
                   destination_path, idx, runs, manifest0, disk0>>

Terminated == pc \in {"done", "rejected", "crashed"}

\* the script is invoked again with the same command line: a fresh process,
\* the files as the run before left them
Rerun ==
    /\ Terminated
    /\ runs < MaxRuns
    /\ runs' = runs + 1
    /\ pc' = "check_argc"
    /\ exitCode' = 0
    /\ stdout' = <<>>
    /\ incr_method' = ""
    /\ publish_method' = ""
    /\ extension_name' = <<>>
    /\ source_files' = <<>>
    /\ asset_files' = <<>>
    /\ destination_path' = <<>>
    /\ idx' = 0
    /\ manifest0' = manifest
    /\ disk0' = disk
    /\ UNCHANGED <<argv, manifest, srcTree, assetTree, disk>>

Next ==
    \/ CheckArgCount
    \/ CheckMethod
    \/ CheckMode
    \/ BumpVersion
    \/ CollectSources
    \/ CollectAssets
    \/ RemovePrior
    \/ MakeDest
    \/ OpenZip
    \/ ZipWriteSource
    \/ ZipWriteAsset
    \/ RmTree
    \/ CopySource
    \/ CopyAsset
    \/ SkipPackaging
    \/ Finish
    \/ Rerun

Spec == Init /\ [][Next]_vars

TypeOK ==
    /\ pc \in {"check_argc", "check_method", "check_mode", "bump",
               "collect_sources", "collect_assets", "remove_prior", "make_dest",
               "package", "zip_sources", "zip_assets", "copy_sources",
               "copy_assets", "finish", "done", "rejected", "crashed"}
    /\ runs \in 1..MaxRuns
    /\ exitCode \in {0, 1, 255}

----------------------------------------------------------------------------
(* What the properties below speak about *)

\* the command line passes the checks of lines 21-27
ArgsAccepted == Len(argv) = 5 /\ Lower(argv[3]) \in DOMAIN method_to_index_map

\* the increment method asked for, read off an accepted command line
Method == Lower(argv[3])

\* the version bump block of this run is over, by a write or by an exception
PastBump ==
    pc \notin {"check_argc", "check_method", "check_mode", "bump", "rejected"}

InputRelease == ParseRelease(manifest0.version)
PersistedRelease == ParseRelease(manifest.version)

\* w is v bumped at index i (counted from 0)
IsBumpOf(w, v, i) ==
    /\ Len(w) = Len(v)
    /\ i \in 0..(Len(v) - 1)
    /\ \A j \in 0..(Len(v) - 1) :
          w[j + 1] = IF j < i THEN v[j + 1] ELSE IF j = i THEN v[j + 1] + 1 ELSE 0

NoLeadingZeros(s) == \A k \in 1..Len(s) : Len(s[k]) = 1 \/ s[k][1] /= 0

SameOtherFields(m, n) == m.name = n.name /\ m.description = n.description

AtOrUnder(q, p) == q = p \/ IsUnder(q, p)

\* the output path as the documentation resolves it
OutputPath ==
    Components(IF Lower(argv[4]) = "zip"
               THEN Join(argv[5], manifest0.name) \o ArchiveSuffix
               ELSE Join(argv[5], manifest0.name))

\* what an artifact holds: the names of its entries and their contents
ArtifactEntries(d, p) ==
    IF d[p].kind = "zip"
    THEN {[name |-> Components(d[p].entries[k].arcname), data |-> d[p].entries[k].data] :
            k \in 1..Len(d[p].entries)}
    ELSE {[name |-> SubSeq(q, Len(p) + 1, Len(q)), data |-> d[q].data] :
            q \in {r \in DOMAIN d : IsUnder(r, p) /\ d[r].kind /= "dir"}}

\* the entries the current file lists give
ListedEntries ==
    {[name |-> Components(BaseName(source_files[k])), data |-> ReadFile(source_files[k])] :
        k \in 1..Len(source_files)}
    \cup {[name |-> Components(asset_files[k]), data |-> ReadFile(asset_files[k])] :
        k \in 1..Len(asset_files)}

\* the part of the file system at and below a path
SubTree(d, p) == Restrict(d, {q \in DOMAIN d : AtOrUnder(q, p)})

\* the .lua files of the walk whose directory is the root of the tree or lies
\* at or below the first-level directory named by the category
RECURSIVE FirstLevelFiltered(_, _)
FirstLevelFiltered(walk, category) ==
    IF walk = <<>> THEN <<>>
    ELSE LET e == Last(walk)
             folders == Tail(Split(e.root))
             kept == folders = <<>> \/ folders[1] = category
             lua == SelectSeq(e.files, EndsWithLua)
         IN  FirstLevelFiltered(SubSeq(walk, 1, Len(walk) - 1), category)
                \o (IF kept THEN [k \in 1..Len(lua) |-> Join(e.root, lua[k])] ELSE <<>>)

----------------------------------------------------------------------------
(* C1 *)

\* C1, as stated: for every valid increment method other than none and every
\* manifest version, the version the run persists has the same number of
\* components, equals the input before the method's index, is the input plus
\* one at that index and is zero after it.
C1_BumpForEveryVersion ==
    (ArgsAccepted /\ Method /= "none" /\ PastBump)
        => IsBumpOf(PersistedRelease, InputRelease, method_to_index_map[Method])

\* C1, amended: the same for every version that has a component at the method's
\* index; a version with fewer components makes the run end with an exception
\* before anything is written, the manifest file as it was.
C1_BumpWithinArity ==
    (ArgsAccepted /\ Method /= "none" /\ PastBump)
        => IF method_to_index_map[Method] < Len(InputRelease)
           THEN /\ IsBumpOf(PersistedRelease, InputRelease, method_to_index_map[Method])
                /\ NoLeadingZeros(manifest.version)
           ELSE pc = "crashed" /\ exitCode /= 0 /\ manifest = manifest0

C1_Witness ==
    /\ pc = "done"
    /\ Method = "minor"
    /\ InputRelease = <<1, 9, 3>>
    /\ PersistedRelease = <<1, 10, 0>>

----------------------------------------------------------------------------
(* C2 *)

\* C2: a command line with the wrong number of arguments or an unknown increment
\* method ends the process with a non-zero exit code before the manifest is
\* read; the manifest file is not rewritten and no artifact is made or removed.
C2_RejectedUntouched ==
    ~ArgsAccepted
        => /\ pc \in {"check_argc", "check_method", "rejected"}
           /\ pc = "check_method" => Len(argv) = 5
           /\ pc = "rejected" => exitCode /= 0
           /\ manifest = manifest0
           /\ disk = disk0

C2_Witness ==
    /\ pc = "rejected"
    /\ Len(argv) = 5
    /\ argv[3] = "bogus"
    /\ disk = PublishedDisk

----------------------------------------------------------------------------
(* C3 *)

\* C3: a publish mode that is neither zip nor no_zip prints the diagnostic and
\* ends the process with a non-zero exit code, so that neither the version bump
\* nor the packaging is reached.
C3_ModeValidated ==
    (ArgsAccepted /\ ~InList(Lower(argv[4]), publish_modes))
        => /\ pc \in {"check_argc", "check_method", "check_mode", "rejected"}
           /\ pc = "rejected" => exitCode /= 0 /\ InList("mode_error", stdout)
           /\ manifest = manifest0
           /\ disk = disk0

----------------------------------------------------------------------------
(* C4 *)

\* C4: the flat-file list is the manifest path followed by the .lua files of the
\* source tree in walk order, those of a first-level directory other than the
\* category left out with everything beneath them, those at the root kept.
C4_FirstLevelFilter ==
    source_files /= <<>>
        => source_files = <<package_json_location>> \o FirstLevelFiltered(srcTree, argv[2])

----------------------------------------------------------------------------
(* C5 *)

\* C5, as stated: with method none the version field written back equals the
\* version field read, and the other fields are unchanged.
C5_NoneKeepsVersionText ==
    (ArgsAccepted /\ Method = "none" /\ PastBump)
        => manifest.version = manifest0.version /\ SameOtherFields(manifest, manifest0)

\* C5, amended: with method none the version written back has the components of
\* the version read, equal as integers, and is the same text when no component
\* of the version read has a leading zero; the other fields are unchanged.
C5_NoneKeepsRelease ==
    (ArgsAccepted /\ Method = "none" /\ PastBump)
        => /\ PersistedRelease = InputRelease
           /\ NoLeadingZeros(manifest0.version) => manifest.version = manifest0.version
           /\ SameOtherFields(manifest, manifest0)

C5_Witness ==
    /\ pc = "done"
    /\ Method = "none"
    /\ runs = 1
    /\ manifest0.version = <<<<1>>, <<2>>, <<3>>>>
    /\ manifest.layout = "indent4"

----------------------------------------------------------------------------
(* C6 *)

\* an archive or a directory is at the path
HoldsArtifact(d, s) == Exists(d, s) /\ d[Components(s)].kind \in {"zip", "dir"}

\* C6: when the destination held an artifact at the output path, a run that
\* ends successfully leaves there an artifact with exactly the entries of the
\* current flat-file and asset-file lists, none of an earlier run among them.
C6_FullReplacement ==
    (pc = "done" /\ exitCode = 0 /\ HoldsArtifact(disk0, destination_path))
        => /\ HoldsArtifact(disk, destination_path)
           /\ ArtifactEntries(disk, Components(destination_path)) = ListedEntries

\* the same for the runs whose publish mode is zip or no_zip
ReplacementInBothModes ==
    (pc = "done" /\ InList(publish_method, publish_modes)
                 /\ Exists(disk0, destination_path))
        => /\ HoldsArtifact(disk, destination_path)
           /\ ArtifactEntries(disk, Components(destination_path)) = ListedEntries

----------------------------------------------------------------------------
(* C7 *)

\* C7: in either mode a run removes nothing but the artifact at the output
\* path, and the artifact that was there is gone when the run first writes.
C7_RemovalAtOutputPath ==
    [][(ArgsAccepted /\ InList(Lower(argv[4]), publish_modes))
        => /\ \A q \in DOMAIN disk \ DOMAIN disk' : AtOrUnder(q, OutputPath)
           /\ (pc = "package" /\ pc' = "zip_sources") => OutputPath \notin DOMAIN disk
           /\ (pc = "copy_sources" /\ idx = 1)
                => \A q \in DOMAIN disk : ~AtOrUnder(q, OutputPath)]_vars

----------------------------------------------------------------------------
(* C8 *)

\* C8: in archive mode the entries are the flat files under their base names, in
\* list order, then the asset files under their relative paths, in list order,
\* one entry per listed file; in directory mode every flat file is a file named
\* by its base name right under the output directory and every asset file a
\* file at its relative path under it.
C8_Layout ==
    (pc = "done" /\ InList(publish_method, publish_modes))
        => LET p == Components(destination_path)
               ns == Len(source_files)
               na == Len(asset_files)
               assetX == <<"assets", Sep, "icons", Sep, "x", ".png">>
           IN  IF publish_method = "zip"
               THEN /\ Len(disk[p].entries) = ns + na
                    /\ \A k \in 1..ns :
                          /\ disk[p].entries[k].arcname = BaseName(source_files[k])
                          /\ ~InList(Sep, disk[p].entries[k].arcname)
                          /\ disk[p].entries[k].data.origin = source_files[k]
                    /\ \A k \in 1..na :
                          /\ disk[p].entries[ns + k].arcname = asset_files[k]
                          /\ disk[p].entries[ns + k].data.origin = asset_files[k]
                    /\ InList(assetX, asset_files)
                          => \E k \in 1..(ns + na) :
                                Components(disk[p].entries[k].arcname)
                                    = <<"assets", "icons", "x.png">>
               ELSE /\ \A k \in 1..ns :
                          LET q == p \o Components(BaseName(source_files[k]))
                          IN  /\ Len(q) = Len(p) + 1
                              /\ q \in DOMAIN disk
                              /\ disk[q].kind = "file"
                              /\ BaseName(disk[q].data.origin) = BaseName(source_files[k])
                    /\ \A k \in 1..na :
                          LET q == p \o Components(asset_files[k])
                          IN  /\ q \in DOMAIN disk
                              /\ disk[q].kind = "file"
                              /\ disk[q].data.origin = asset_files[k]
                    /\ InList(assetX, asset_files)
                          => <<"out", "ext", "assets", "icons", "x.png">> \in DOMAIN disk

C8_Witness ==
    /\ pc = "done"
    /\ publish_method = "zip"
    /\ Len(source_files) = 4
    /\ Len(asset_files) = 2
    /\ disk[Components(destination_path)].entries[6].arcname
            = <<"assets", Sep, "icons", Sep, "x", ".png">>

----------------------------------------------------------------------------
(* C9 *)

\* C9: a second run with method none, the command line and the two trees being
\* the same, ends with the manifest file and the artifact that the first run
\* left.
C9_Idempotent ==
    (runs >= 2 /\ pc = "done" /\ incr_method = "none")
        => /\ manifest = manifest0
           /\ SubTree(disk, Components(destination_path))
                = SubTree(disk0, Components(destination_path))

C9_Witness ==
    /\ runs = 2
    /\ pc = "done"
    /\ incr_method = "none"
    /\ publish_method = "zip"
    /\ Len(disk[Components(destination_path)].entries) = 6

----------------------------------------------------------------------------
(* C10 *)

\* the manifest file holds what this run's bump writes
BumpPersisted ==
    /\ manifest.layout = "indent4"
    /\ SameOtherFields(manifest, manifest0)
    /\ IF incr_method = "none"
       THEN PersistedRelease = InputRelease
       ELSE IsBumpOf(PersistedRelease, InputRelease, method_to_index_map[incr_method])

\* the manifest copies of the artifact at the output path
ManifestCopies ==
    LET p == Components(destination_path)
    IN  IF p \in DOMAIN disk
        THEN {e \in ArtifactEntries(disk, p) : e.name = <<"package.json">>}
        ELSE {}

\* C10: the bumped manifest is in the manifest file once the file lists are
\* built, hence when packaging fails too; while the output is written and when
\* the run is over, every manifest copy in the artifact is the manifest file,
\* and the finished artifact has one.
C10_BumpBeforePackaging ==
    /\ source_files /= <<>> => BumpPersisted
    /\ (pc \in {"zip_sources", "zip_assets", "copy_sources", "copy_assets", "finish", "done"}
            /\ InList(publish_method, publish_modes))
        => /\ BumpPersisted
           /\ \A e \in ManifestCopies : e.data.text = manifest
           /\ pc \in {"finish", "done"} => ManifestCopies /= {}

C10_Witness ==
    /\ pc = "done"
    /\ publish_method = "no_zip"
    /\ incr_method = "patch"
    /\ disk0 = PublishedDisk
    /\ disk[<<"out", "ext", "package.json">>].data.text.version = <<<<1>>, <<2>>, <<4>>>>

====
